---- MODULE Spec2Model ----
(***************************************************************************)
(* Model of ReZNet-6x_faster_ResNet_training_via_ReZero.ipynb: the         *)
(* AverageMeter, train, validate and setup_and_train functions, the        *)
(* MultiStepLR schedule they drive, and the BasicBlock / ResNet            *)
(* construction.  Numbers the code holds as Python floats are modelled as  *)
(* exact rationals [n, d] in lowest terms (floating-point rounding and     *)
(* non-finite values are outside the model).                               *)
(***************************************************************************)
EXTENDS Integers, Sequences, FiniteSets, TLC

(***************************************************************************)
(* Bounds of the model.                                                    *)
(***************************************************************************)
MaxEpochs == 2        \* epochs argument ranges over 0..MaxEpochs in Spec
MaxTrainSize == 3     \* examples in the training set: 0..MaxTrainSize
MaxBatchSize == 2     \* batch_size argument: 1..MaxBatchSize
MaxPrintFreq == 2     \* print_freq argument: 1..MaxPrintFreq
MaxValFull == 1       \* full validation batches: 0..MaxValFull
MaxData == 1          \* abstract content of a training batch: 0..MaxData
MaxEpochsLR == 151    \* epochs argument in SpecLR (past both milestones)
MaxUpdates == 3       \* update() calls on the directly driven meter between resets
MaxWeight == 2        \* weight n of an update() call: 0..MaxWeight
MaxVal == 2           \* value of an update() call: k/2 for k in -1..MaxVal
MaxBlocks == 2        \* per-stage block counts: 0..MaxBlocks
MaxSide == 2          \* height and width of a block's input: 1..MaxSide
MaxDepth == 18        \* blocks per stage of the networks test() is called on
MaxAccBatch == 2      \* examples in a batch given to accuracy: 1..MaxAccBatch


(***************************************************************************)
(* Abstract value domains of the network: the weights, the BatchNorm       *)
(* running statistics and the loss stand for tensors the model does not    *)
(* compute; each is a point of a small finite domain.                      *)
(***************************************************************************)
ParamValues == {0, 1}
BufferValues == {0, 1}
LossValues == {0, 1, 2, 3}
ParamSpace == Cardinality(ParamValues)
BufSpace == Cardinality(BufferValues)
LossSpace == Cardinality(LossValues)

(***************************************************************************)
(* Program constants.                                                      *)
(***************************************************************************)
ValBatchSize == 128   \* batch_size of val_loader
Milestone1 == 100     \* milestones=[100, 150]
Milestone2 == 150

(***************************************************************************)
(* Exact rational arithmetic for the values Python keeps as floats.        *)
(***************************************************************************)
RECURSIVE Gcd(_, _)
Gcd(a, b) == IF b = 0 THEN a ELSE Gcd(b, a % b)

Abs(x) == IF x < 0 THEN -x ELSE x

Rat(n, d) ==
    LET s == IF d < 0 THEN -1 ELSE 1
        g == Gcd(Abs(n), Abs(d))
    IN  [n |-> (s * n) \div g, d |-> (s * d) \div g]

RInt(k) == [n |-> k, d |-> 1]

RAdd(a, b) == Rat(a.n * b.d + b.n * a.d, a.d * b.d)

RMul(a, b) == Rat(a.n * b.n, a.d * b.d)

RDiv(a, b) == Rat(a.n * b.d, a.d * b.n)

RLt(a, b) == a.n * b.d < b.n * a.d

\* Python's max(a, b): b only when b > a.
RMax(a, b) == IF RLt(a, b) THEN b ELSE a

Zero == RInt(0)

(***************************************************************************)
(* AverageMeter.                                                           *)
(***************************************************************************)
\* reset(): val = avg = sum = count = 0.
MeterReset == [val |-> Zero, avg |-> Zero, sum |-> Zero, count |-> 0]

\* Variant: a meter is reused across passes without reset().
ReusedMeter(old) == old

\* AverageMeter(): __init__ calls reset() on the new object, whatever the variable
\* it is bound to held before.
FreshMeter(old) == MeterReset

\* Variant: the weight n is ignored when the sum is accumulated.
UpdateFieldsUnweighted(m, v, n) ==
    [val |-> v, avg |-> m.avg, sum |-> RAdd(m.sum, v), count |-> m.count + n]

\* update(): the three assignments that precede the division.
UpdateFields(m, v, n) ==
    [val |-> v, avg |-> m.avg, sum |-> RAdd(m.sum, RMul(v, RInt(n))),
     count |-> m.count + n]

\* self.sum / self.count raises ZeroDivisionError when count is 0.
UpdateRaises(m, v, n) == UpdateFields(m, v, n).count = 0

\* update(val, n): the state it leaves (avg stays stale when the division raises).
Update(m, v, n) ==
    LET u == UpdateFields(m, v, n)
    IN  IF u.count = 0 THEN u
        ELSE [u EXCEPT !.avg = RDiv(u.sum, RInt(u.count))]

(***************************************************************************)
(* Data loaders: DataLoader(dataset, batch_size) yields ceil(size/bs)      *)
(* batches, all of bs examples but a shorter last one (drop_last=False).   *)
(***************************************************************************)
\* time.time() - end: the clock is abstracted to one tick per measured interval.
Elapsed == RInt(1)

NumBatches(size, bs) == (size + bs - 1) \div bs

BatchLen(size, bs, k) == IF (k + 1) * bs <= size THEN bs ELSE size - k * bs

\* examples in the first k batches
ExamplesIn(size, bs, k) == IF k * bs <= size THEN k * bs ELSE size

\* The validation set is fixed and not shuffled: batch k always has this content.
ValContent(k) == k % (MaxData + 1)

(***************************************************************************)
(* The network, optimizer and loss as deterministic functions over an      *)
(* abstract parameter domain.                                              *)
(***************************************************************************)
\* model(input): number of examples of the batch whose top class is the label.
Correct(p, b, x, size) == (2 * p + b + x) % (size + 1)

\* criterion(output, target).item()
LossOf(p, b, x) == RInt((p + 2 * b + x) % LossSpace)

\* BatchNorm running statistics: updated by a forward pass in training mode only.
BuffersAfter(mode, b, x) == IF mode THEN (b + x + 1) % BufSpace ELSE b

\* Variant: validate does not switch the model to evaluation mode.
EvalModeOmitted == TRUE

\* model.eval(): the training flag that validate runs under
EvalMode == FALSE

\* Variant: gradients are not reset before backward().
KeptGrad(g) == g

\* optimizer.zero_grad(): existing gradients are zeroed
ZeroedGrad(g) == IF g = <<>> THEN <<>> ELSE <<0>>

\* loss.backward() accumulates into .grad
GradOf(p, x) == ((p + x) % ParamSpace) + 1

\* optimizer.step(): SGD moves the parameters along the gradient.
SGDStep(p, g) == (p + g) % ParamSpace

\* accuracy(output, target)[0]: correct_k * (100.0 / batch_size)
AccuracyAsFraction(c, size) == Rat(c, size)
Accuracy(c, size) == RMul(RInt(c), Rat(100, size))

(***************************************************************************)
(* MultiStepLR(optimizer, milestones=[100, 150]) as of PyTorch 1.4, the    *)
(* version the notebook states: gamma defaults to 0.1; get_lr() is the     *)
(* chainable form, which multiplies the optimizer's current rate by gamma  *)
(* whenever last_epoch is a milestone.                                     *)
(***************************************************************************)
Milestones == {Milestone1, Milestone2}

Gamma == Rat(1, 10)

GetLr(le, glr) == IF le \notin Milestones THEN glr ELSE RMul(glr, Gamma)

VARIABLES
    cuda_available,   \* torch.cuda.is_available()
    epochs, print_freq, batch_size, lr,   \* arguments of setup_and_train
    trainSize, valSize,                   \* examples behind the two loaders
    pc,               \* control position
    epoch,            \* loop variable of setup_and_train
    best_prec1, prec1, loss, is_best,
    group_lr,         \* optimizer.param_groups[0]['lr']
    last_epoch,       \* lr_scheduler.last_epoch
    summary,          \* the last end-of-epoch record printed
    params, buffers, training, grad,      \* the model and its .grad
    i,                \* batch index inside train / validate
    batch,            \* the batch being processed
    output,           \* model(input_var), criterion(...) of the batch
    batch_time, data_time, losses, top1,  \* meters of the pass in progress
    records,          \* progress records printed by the current train call
    optSteps,         \* optimizer.step() calls of the current train call
    appliedLr,        \* rate used by the latest optimizer.step()
    trainPasses, evalPasses, bestUpdates, summaries,  \* completed steps
    accs,             \* the validation accuracies validate has returned so far
    meter, hist, meter_exc,  \* a meter driven directly, the calls made on it since
                             \* its last reset, and whether the last call raised
    rezero, num_blocks,      \* arguments of ResNet(BasicBlock, num_blocks, rezero)
    npc,                     \* how far the network's construction has come
    blocks,                  \* the BasicBlocks of layer1, layer2, layer3 in order
    fwd,                     \* the last BasicBlock.forward call: block, input, output
    shown,                   \* what test(net) printed
    acc_args, acc_res        \* an accuracy(output, target) call and its result

vars == <<cuda_available, epochs, print_freq, batch_size, lr, trainSize, valSize,
          pc, epoch, best_prec1, prec1, loss, is_best, group_lr, last_epoch,
          summary, params, buffers, training, grad, i, batch, output,
          batch_time, data_time, losses, top1, records, optSteps, appliedLr,
          trainPasses, evalPasses, bestUpdates, summaries, accs,
          meter, hist, meter_exc, rezero, num_blocks, npc, blocks, fwd, shown,
          acc_args, acc_res>>

config == <<cuda_available, epochs, print_freq, batch_size, lr, trainSize, valSize>>
outer == <<epoch, best_prec1, prec1, loss, is_best, summary>>
sched == <<group_lr, last_epoch>>
net == <<params, buffers, training, grad>>
meters == <<batch_time, data_time, losses, top1>>
counts == <<trainPasses, evalPasses, bestUpdates, summaries>>
meterVars == <<meter, hist, meter_exc>>
arch == <<rezero, num_blocks, npc, blocks, fwd, shown>>
call == <<acc_args, acc_res>>
trainVars == <<config, pc, outer, sched, net, i, batch, output, meters, records,
               optSteps, appliedLr, counts, accs>>

\* Python's None for a value not yet assigned; <<v>> once it holds v.
None == <<>>
NoBatch == [size |-> 0, x |-> 0]
NoOutput == [correct |-> 0, loss |-> Zero, prec1 |-> Zero]

\* Validation sets tried: empty, or f full batches and a last batch of one example.
ValSizes == {0} \cup {ValBatchSize * f + 1 : f \in 0..MaxValFull}

\* accuracy has not been called
NoCall == acc_args = <<>> /\ acc_res = <<>>

\* no ResNet has been constructed
NoNetwork ==
    /\ rezero = FALSE /\ num_blocks = <<1, 1, 1>> /\ npc = "none"
    /\ blocks = <<>> /\ fwd = <<>> /\ shown = <<>>

(***************************************************************************)
(* State before setup_and_train is called.                                 *)
(***************************************************************************)
InitLocals ==
    /\ pc = "call"
    /\ epoch = 0
    /\ best_prec1 = Zero /\ prec1 = Zero /\ loss = Zero /\ is_best = FALSE
    /\ group_lr = Zero /\ last_epoch = -1
    /\ summary = None
    /\ params = 0    \* torch.manual_seed(0): the initial weights are fixed
    /\ buffers = 0 /\ training = TRUE
    /\ grad = None
    /\ i = 0 /\ batch = NoBatch /\ output = NoOutput
    /\ batch_time = MeterReset /\ data_time = MeterReset
    /\ losses = MeterReset /\ top1 = MeterReset
    /\ records = <<>> /\ optSteps = 0 /\ appliedLr = Zero
    /\ trainPasses = 0 /\ evalPasses = 0 /\ bestUpdates = 0 /\ summaries = 0
    /\ accs = {}

Init ==
    /\ cuda_available \in BOOLEAN
    /\ epochs \in 0..MaxEpochs
    /\ print_freq \in 1..MaxPrintFreq
    /\ batch_size \in 1..MaxBatchSize
    /\ lr = Rat(1, 10)
    /\ trainSize \in 0..MaxTrainSize
    /\ valSize \in ValSizes
    /\ InitLocals
    /\ meter = MeterReset /\ hist = <<>> /\ meter_exc = FALSE
    /\ NoNetwork
    /\ NoCall

(***************************************************************************)
(* setup_and_train                                                         *)
(***************************************************************************)
\* model.to(device), the loaders, criterion, SGD, MultiStepLR, best_prec1 = 0
Setup ==
    /\ pc = "call"
    /\ group_lr' = lr
    /\ last_epoch' = 0
    /\ best_prec1' = Zero
    /\ epoch' = 0
    /\ pc' = "epoch_head"
    /\ UNCHANGED <<config, arch, call, meterVars, accs, prec1, loss, is_best, summary, net, i, batch, output,
                   meters, records, optSteps, appliedLr, counts>>

\* for epoch in range(start_epoch, epochs)
EpochHead ==
    /\ pc = "epoch_head"
    /\ pc' = IF epoch < epochs THEN "train" ELSE "done"
    /\ UNCHANGED <<config, arch, call, meterVars, accs, outer, sched, net, i, batch, output, meters, records,
                   optSteps, appliedLr, counts>>

(***************************************************************************)
(* train                                                                   *)
(***************************************************************************)
\* four fresh meters, model.train(), end = time.time()
TrainBegin ==
    /\ pc = "train"
    /\ batch_time' = FreshMeter(batch_time) /\ data_time' = FreshMeter(data_time)
    /\ losses' = FreshMeter(losses) /\ top1' = FreshMeter(top1)
    /\ training' = TRUE
    /\ i' = 0 /\ records' = <<>> /\ optSteps' = 0
    /\ batch' = NoBatch /\ output' = NoOutput
    /\ pc' = "t_fetch"
    /\ UNCHANGED <<config, arch, call, meterVars, accs, outer, sched, params, buffers, grad, appliedLr, counts>>

\* Variant: the schedule is not advanced after the training pass.
AfterTrainSkipsSchedule == "validate"

\* setup_and_train's statement after the call of train: lr_scheduler.step()
AfterTrain == "sched_step"

\* the loader yields batch i (shuffled: any content) and data_time is updated;
\* or the loader is exhausted and train returns
TrainFetch ==
    /\ pc = "t_fetch"
    /\ IF i < NumBatches(trainSize, batch_size)
       THEN /\ \E x \in 0..MaxData :
                 batch' = [size |-> BatchLen(trainSize, batch_size, i), x |-> x]
            /\ data_time' = Update(data_time, Elapsed, 1)
            /\ pc' = "t_cuda"
            /\ UNCHANGED trainPasses
       ELSE /\ pc' = AfterTrain
            /\ trainPasses' = trainPasses + 1
            /\ UNCHANGED <<batch, data_time>>
    /\ UNCHANGED <<config, arch, call, meterVars, accs, outer, sched, net, i, output, batch_time, losses, top1,
                   records, optSteps, appliedLr, evalPasses, bestUpdates, summaries>>

\* target.cuda(); input.cuda(): raises on a machine without CUDA
TrainToDevice ==
    /\ pc = "t_cuda"
    /\ pc' = IF cuda_available THEN "t_forward" ELSE "raised"
    /\ UNCHANGED <<config, arch, call, meterVars, accs, outer, sched, net, i, batch, output, meters, records,
                   optSteps, appliedLr, counts>>

\* output = model(input_var)
TrainForward ==
    /\ pc = "t_forward"
    /\ output' = [output EXCEPT !.correct = Correct(params, buffers, batch.x, batch.size)]
    /\ buffers' = BuffersAfter(training, buffers, batch.x)
    /\ pc' = "t_loss"
    /\ UNCHANGED <<config, arch, call, meterVars, accs, outer, sched, params, training, grad, i, batch, meters,
                   records, optSteps, appliedLr, counts>>

\* loss = criterion(output, target_var)
TrainLoss ==
    /\ pc = "t_loss"
    /\ output' = [output EXCEPT !.loss = LossOf(params, buffers, batch.x)]
    /\ pc' = "t_zero"
    /\ UNCHANGED <<config, arch, call, meterVars, accs, outer, sched, net, i, batch, meters, records,
                   optSteps, appliedLr, counts>>

\* optimizer.zero_grad()
TrainZeroGrad ==
    /\ pc = "t_zero"
    /\ grad' = ZeroedGrad(grad)
    /\ pc' = "t_backward"
    /\ UNCHANGED <<config, arch, call, meterVars, accs, outer, sched, params, buffers, training, i, batch, output,
                   meters, records, optSteps, appliedLr, counts>>

\* loss.backward()
TrainBackward ==
    /\ pc = "t_backward"
    /\ grad' = <<(IF grad = None THEN 0 ELSE grad[1]) + GradOf(params, batch.x)>>
    /\ pc' = "t_step"
    /\ UNCHANGED <<config, arch, call, meterVars, accs, outer, sched, params, buffers, training, i, batch, output,
                   meters, records, optSteps, appliedLr, counts>>

\* optimizer.step()
TrainOptStep ==
    /\ pc = "t_step"
    /\ params' = SGDStep(params, grad[1])
    /\ appliedLr' = group_lr
    /\ optSteps' = optSteps + 1
    /\ pc' = "t_acc"
    /\ UNCHANGED <<config, arch, call, meterVars, accs, outer, sched, buffers, training, grad, i, batch, output,
                   meters, records, counts>>

\* prec1 = accuracy(output.data, target)[0]
TrainAccuracy ==
    /\ pc = "t_acc"
    /\ output' = [output EXCEPT !.prec1 = Accuracy(output.correct, batch.size)]
    /\ pc' = "t_losses"
    /\ UNCHANGED <<config, arch, call, meterVars, accs, outer, sched, net, i, batch, meters, records,
                   optSteps, appliedLr, counts>>

\* losses.update(loss.item(), input.size(0))
TrainLossesUpdate ==
    /\ pc = "t_losses"
    /\ losses' = Update(losses, output.loss, batch.size)
    /\ pc' = IF UpdateRaises(losses, output.loss, batch.size) THEN "raised" ELSE "t_top1"
    /\ UNCHANGED <<config, arch, call, meterVars, accs, outer, sched, net, i, batch, output, batch_time, data_time,
                   top1, records, optSteps, appliedLr, counts>>

\* top1.update(prec1.item(), input.size(0))
TrainTop1Update ==
    /\ pc = "t_top1"
    /\ top1' = Update(top1, output.prec1, batch.size)
    /\ pc' = IF UpdateRaises(top1, output.prec1, batch.size) THEN "raised" ELSE "t_time"
    /\ UNCHANGED <<config, arch, call, meterVars, accs, outer, sched, net, i, batch, output, batch_time, data_time,
                   losses, records, optSteps, appliedLr, counts>>

\* batch_time.update(time.time() - end); end = time.time()
TrainBatchTime ==
    /\ pc = "t_time"
    /\ batch_time' = Update(batch_time, Elapsed, 1)
    /\ pc' = "t_print"
    /\ UNCHANGED <<config, arch, call, meterVars, accs, outer, sched, net, i, batch, output, data_time, losses,
                   top1, records, optSteps, appliedLr, counts>>

\* the arguments of the progress record's format call
ProgressRecord ==
    [epoch |-> epoch + 1, batch |-> i,
     total |-> NumBatches(trainSize, batch_size),
     lr |-> GetLr(last_epoch, group_lr),
     ms |-> RMul(RInt(1000), batch_time.avg),
     loss |-> losses.avg, top1 |-> top1.avg]

\* Variant: the record is printed after every print_freq-th batch.
ShouldPrintOffByOne(k, pf) == (k + 1) % pf = 0

\* if i % print_freq == 0: print(...)
ShouldPrint(k, pf) == k % pf = 0

TrainPrint ==
    /\ pc = "t_print"
    /\ records' = IF ShouldPrint(i, print_freq)
                  THEN Append(records, ProgressRecord) ELSE records
    /\ i' = i + 1
    /\ pc' = "t_fetch"
    /\ UNCHANGED <<config, arch, call, meterVars, accs, outer, sched, net, batch, output, meters,
                   optSteps, appliedLr, counts>>

(***************************************************************************)
(* lr_scheduler.step()                                                     *)
(***************************************************************************)
SchedStep ==
    /\ pc = "sched_step"
    /\ last_epoch' = last_epoch + 1
    /\ group_lr' = GetLr(last_epoch + 1, group_lr)
    /\ pc' = "validate"
    /\ UNCHANGED <<config, arch, call, meterVars, accs, outer, net, i, batch, output, meters, records,
                   optSteps, appliedLr, counts>>

(***************************************************************************)
(* validate                                                                *)
(***************************************************************************)
\* three fresh meters, model.eval(), end = time.time()
ValidateBegin ==
    /\ pc = "validate"
    /\ batch_time' = FreshMeter(batch_time) /\ losses' = FreshMeter(losses)
    /\ top1' = FreshMeter(top1)
    /\ training' = EvalMode
    /\ i' = 0
    /\ batch' = NoBatch /\ output' = NoOutput
    /\ pc' = "v_fetch"
    /\ UNCHANGED <<config, arch, call, meterVars, accs, outer, sched, params, buffers, grad, data_time, records,
                   optSteps, appliedLr, counts>>

\* the loader yields batch i, or is exhausted and validate returns
\* (loss, prec1 = losses.avg, top1.avg)
ValFetch ==
    /\ pc = "v_fetch"
    /\ IF i < NumBatches(valSize, ValBatchSize)
       THEN /\ batch' = [size |-> BatchLen(valSize, ValBatchSize, i), x |-> ValContent(i)]
            /\ pc' = "v_cuda"
            /\ UNCHANGED <<loss, prec1, evalPasses, accs>>
       ELSE /\ loss' = losses.avg
            /\ prec1' = top1.avg
            /\ accs' = accs \cup {top1.avg}
            /\ evalPasses' = evalPasses + 1
            /\ pc' = "best"
            /\ UNCHANGED batch
    /\ UNCHANGED <<config, arch, call, meterVars, epoch, best_prec1, is_best, summary, sched, net, i,
                   output, meters, records, optSteps, appliedLr, trainPasses,
                   bestUpdates, summaries>>

\* target.cuda(); input.cuda()
ValToDevice ==
    /\ pc = "v_cuda"
    /\ pc' = IF cuda_available THEN "v_forward" ELSE "raised"
    /\ UNCHANGED <<config, arch, call, meterVars, accs, outer, sched, net, i, batch, output, meters, records,
                   optSteps, appliedLr, counts>>

\* output = model(input_var) under torch.no_grad()
ValForward ==
    /\ pc = "v_forward"
    /\ output' = [output EXCEPT !.correct = Correct(params, buffers, batch.x, batch.size)]
    /\ buffers' = BuffersAfter(training, buffers, batch.x)
    /\ pc' = "v_loss"
    /\ UNCHANGED <<config, arch, call, meterVars, accs, outer, sched, params, training, grad, i, batch, meters,
                   records, optSteps, appliedLr, counts>>

\* loss = criterion(output, target_var)
ValLoss ==
    /\ pc = "v_loss"
    /\ output' = [output EXCEPT !.loss = LossOf(params, buffers, batch.x)]
    /\ pc' = "v_acc"
    /\ UNCHANGED <<config, arch, call, meterVars, accs, outer, sched, net, i, batch, meters, records,
                   optSteps, appliedLr, counts>>

\* prec1 = accuracy(output.data, target)[0]
ValAccuracy ==
    /\ pc = "v_acc"
    /\ output' = [output EXCEPT !.prec1 = Accuracy(output.correct, batch.size)]
    /\ pc' = "v_losses"
    /\ UNCHANGED <<config, arch, call, meterVars, accs, outer, sched, net, i, batch, meters, records,
                   optSteps, appliedLr, counts>>

\* losses.update(loss.item(), input.size(0))
ValLossesUpdate ==
    /\ pc = "v_losses"
    /\ losses' = Update(losses, output.loss, batch.size)
    /\ pc' = IF UpdateRaises(losses, output.loss, batch.size) THEN "raised" ELSE "v_top1"
    /\ UNCHANGED <<config, arch, call, meterVars, accs, outer, sched, net, i, batch, output, batch_time, data_time,
                   top1, records, optSteps, appliedLr, counts>>

\* top1.update(prec1.item(), input.size(0))
ValTop1Update ==
    /\ pc = "v_top1"
    /\ top1' = Update(top1, output.prec1, batch.size)
    /\ pc' = IF UpdateRaises(top1, output.prec1, batch.size) THEN "raised" ELSE "v_time"
    /\ UNCHANGED <<config, arch, call, meterVars, accs, outer, sched, net, i, batch, output, batch_time, data_time,
                   losses, records, optSteps, appliedLr, counts>>

\* batch_time.update(time.time() - end); end = time.time(); next batch
ValBatchTime ==
    /\ pc = "v_time"
    /\ batch_time' = Update(batch_time, Elapsed, 1)
    /\ i' = i + 1
    /\ pc' = "v_fetch"
    /\ UNCHANGED <<config, arch, call, meterVars, accs, outer, sched, net, batch, output, data_time, losses,
                   top1, records, optSteps, appliedLr, counts>>

(***************************************************************************)
(* end of the epoch cycle                                                  *)
(***************************************************************************)
\* Variant: the best accuracy is overwritten by the current one.
NewBestOverwrites(p, b) == p

\* is_best = prec1 > best_prec1; best_prec1 = max(prec1, best_prec1)
NewBest(p, b) == RMax(p, b)

BestUpdate ==
    /\ pc = "best"
    /\ is_best' = RLt(best_prec1, prec1)
    /\ best_prec1' = NewBest(prec1, best_prec1)
    /\ bestUpdates' = bestUpdates + 1
    /\ pc' = "summary"
    /\ UNCHANGED <<config, arch, call, meterVars, accs, epoch, prec1, loss, summary, sched, net, i, batch, output,
                   meters, records, optSteps, appliedLr, trainPasses, evalPasses,
                   summaries>>

\* the arguments of the end-of-epoch record's format call
SummaryRecord ==
    [epoch |-> epoch + 1, loss |-> loss, prec1 |-> prec1, best |-> best_prec1]

\* print('| end of epoch ...'); the loop moves to the next epoch
Summary ==
    /\ pc = "summary"
    /\ summary' = <<SummaryRecord>>
    /\ summaries' = summaries + 1
    /\ epoch' = epoch + 1
    /\ pc' = "epoch_head"
    /\ UNCHANGED <<config, arch, call, meterVars, accs, best_prec1, prec1, loss, is_best, sched, net, i, batch,
                   output, meters, records, optSteps, appliedLr, trainPasses,
                   evalPasses, bestUpdates>>

Next ==
    \/ Setup \/ EpochHead
    \/ TrainBegin \/ TrainFetch \/ TrainToDevice \/ TrainForward \/ TrainLoss
    \/ TrainZeroGrad \/ TrainBackward \/ TrainOptStep \/ TrainAccuracy
    \/ TrainLossesUpdate \/ TrainTop1Update \/ TrainBatchTime \/ TrainPrint
    \/ SchedStep
    \/ ValidateBegin \/ ValFetch \/ ValToDevice \/ ValForward \/ ValLoss
    \/ ValAccuracy \/ ValLossesUpdate \/ ValTop1Update \/ ValBatchTime
    \/ BestUpdate \/ Summary

Spec == Init /\ [][Next]_vars

(***************************************************************************)
(* Properties of setup_and_train, train and validate, checked under Spec.  *)
(***************************************************************************)
TrainPcs == {"t_fetch", "t_cuda", "t_forward", "t_loss", "t_zero", "t_backward",
             "t_step", "t_acc", "t_losses", "t_top1", "t_time", "t_print"}
ValPcs == {"v_fetch", "v_cuda", "v_forward", "v_loss", "v_acc", "v_losses",
           "v_top1", "v_time"}

RGe(a, b) == ~RLt(a, b)

\* the greatest element of a non-empty finite set of rationals
SetMax(S) == CHOOSE m \in S : \A y \in S : RGe(m, y)

\* C1: once the best-accuracy update of an epoch has run, best_prec1 is the
\* maximum of 0 and every validation accuracy returned so far (so it never
\* decreases), and the 'best' field of each end-of-epoch record is at least the
\* validation accuracy of the same record.
C1_BestIsRunningMax ==
    /\ pc \notin {"call", "best"} => best_prec1 = SetMax({Zero} \cup accs)
    /\ pc = "best" => best_prec1 = SetMax({Zero} \cup (accs \ {prec1}))
                      \/ best_prec1 = SetMax({Zero} \cup accs)
    /\ summary # None => /\ RGe(summary[1].best, summary[1].prec1)
                         /\ RGe(best_prec1, summary[1].best)

\* an epoch whose validation accuracy fell below the best so far has been summarised
C1_Witness ==
    /\ summary # None
    /\ RLt(summary[1].prec1, summary[1].best)
    /\ summary[1].epoch >= 2

\* C2: the steps of an epoch cycle run in the order train, lr_scheduler.step,
\* validate, best-accuracy update, summary record, each once per cycle, and
\* epoch e+1 starts only after the summary of epoch e: at every control position
\* the numbers of completed steps are the ones this order gives.
C2_CycleOrder ==
    /\ pc \in {"epoch_head", "train", "done"} \cup TrainPcs =>
          /\ trainPasses = epoch /\ last_epoch = epoch /\ evalPasses = epoch
          /\ bestUpdates = epoch /\ summaries = epoch
    /\ pc = "sched_step" =>
          /\ trainPasses = epoch + 1 /\ last_epoch = epoch /\ evalPasses = epoch
          /\ bestUpdates = epoch /\ summaries = epoch
    /\ pc \in {"validate"} \cup ValPcs =>
          /\ trainPasses = epoch + 1 /\ last_epoch = epoch + 1 /\ evalPasses = epoch
          /\ bestUpdates = epoch /\ summaries = epoch
    /\ pc = "best" =>
          /\ trainPasses = epoch + 1 /\ last_epoch = epoch + 1
          /\ evalPasses = epoch + 1 /\ bestUpdates = epoch /\ summaries = epoch
    /\ pc = "summary" =>
          /\ trainPasses = epoch + 1 /\ last_epoch = epoch + 1
          /\ evalPasses = epoch + 1 /\ bestUpdates = epoch + 1 /\ summaries = epoch
    /\ summary # None => summary[1].epoch = summaries

\* the second cycle has reached its summary step
C2_Witness == pc = "summary" /\ epoch = 1 /\ trainSize > 0 /\ valSize > 0

\* C3: setup_and_train stops only in its terminal state, after exactly epochs
\* training passes and epochs evaluation passes.
C3_StopsAfterEpochs ==
    pc \in {"done", "raised"} =>
        pc = "done" /\ trainPasses = epochs /\ evalPasses = epochs

\* C5: every train call and every validate call starts with its loss, accuracy
\* and timing meters in the state reset() gives, whatever earlier passes left.
C5_PassStartsReset ==
    /\ pc = "t_fetch" /\ i = 0 =>
          /\ batch_time = MeterReset /\ data_time = MeterReset
          /\ losses = MeterReset /\ top1 = MeterReset
    /\ pc = "v_fetch" /\ i = 0 =>
          /\ batch_time = MeterReset /\ losses = MeterReset /\ top1 = MeterReset
    /\ pc \in TrainPcs \cup ValPcs => /\ losses.count <= trainSize + valSize
                                      /\ batch_time.count <= i + 1

\* a training pass starts after a training pass and a validation pass that both
\* processed batches
C5_Witness ==
    /\ pc = "t_fetch" /\ i = 0 /\ epoch = 1
    /\ trainSize > 0 /\ valSize > ValBatchSize
    /\ summary # None /\ summary[1].loss # Zero

RECURSIVE ValidateMeters(_, _, _)
\* the loss and accuracy meters after validate has processed k batches with
\* parameters p and running statistics b, the model in evaluation mode
ValidateMeters(p, b, k) ==
    IF k = 0 THEN [losses |-> MeterReset, top1 |-> MeterReset]
    ELSE LET prev == ValidateMeters(p, b, k - 1)
             n == BatchLen(valSize, ValBatchSize, k - 1)
             x == ValContent(k - 1)
         IN  [losses |-> Update(prev.losses, LossOf(p, b, x), n),
              top1 |-> Update(prev.top1, Accuracy(Correct(p, b, x, n), n), n)]

\* what validate would return if it were run now
ValidateAgain ==
    LET r == ValidateMeters(params, buffers, NumBatches(valSize, ValBatchSize))
    IN  <<r.losses.avg, r.top1.avg>>

\* a step taken inside validate leaves the parameters, gradients, optimizer and
\* schedule as they are
ValidateStepFrame ==
    pc \in {"validate"} \cup ValPcs =>
        /\ params' = params /\ grad' = grad /\ optSteps' = optSteps
        /\ group_lr' = group_lr /\ last_epoch' = last_epoch
        /\ appliedLr' = appliedLr

\* C6: no step of validate changes the model parameters, their gradients, the
\* optimizer's rate or the schedule, or performs an optimizer step, and when
\* validate returns, a second run on the same data would return the same
\* (loss, accuracy) pair.
C6_ValidateFrame ==
    /\ [][ValidateStepFrame]_vars
    /\ [](pc = "best" => <<loss, prec1>> = ValidateAgain)

\* validate has returned a non-zero accuracy over two batches, after training
\* moved the parameters
C6_Witness ==
    /\ pc = "best" /\ valSize > ValBatchSize /\ prec1 # Zero
    /\ params # 0 /\ buffers # 0 /\ grad # None

\* C7: for each batch train runs forward, loss, gradient reset, gradient
\* computation and one optimizer step, then updates the loss meter and the
\* accuracy meter once each with the batch's example count; after the pass the
\* optimizer has stepped once per batch and both meters count every example.
C7_BatchSteps ==
    LET seen(k) == ExamplesIn(trainSize, batch_size, k)
        N == NumBatches(trainSize, batch_size)
    IN
    /\ pc \in {"t_fetch", "t_cuda", "t_forward", "t_loss", "t_zero", "t_backward",
               "t_step"} => optSteps = i
    /\ pc \in {"t_acc", "t_losses", "t_top1", "t_time", "t_print"} => optSteps = i + 1
    /\ pc \in {"t_zero", "t_backward", "t_step"} =>
          output.loss = LossOf(params, buffers, batch.x)
    /\ pc = "t_backward" => grad \in {None, <<0>>}
    /\ pc = "t_step" => grad = <<GradOf(params, batch.x)>>
    /\ pc \in TrainPcs \ {"t_top1", "t_time", "t_print"} => losses.count = seen(i)
    /\ pc \in {"t_top1", "t_time", "t_print"} =>
          /\ losses.count = seen(i + 1)
          /\ losses.val = output.loss
    /\ pc \in TrainPcs \ {"t_time", "t_print"} => top1.count = seen(i)
    /\ pc \in {"t_time", "t_print"} =>
          /\ top1.count = seen(i + 1)
          /\ top1.val = Accuracy(output.correct, batch.size)
    /\ pc \in TrainPcs \ {"t_fetch"} => i < N /\ batch.size = seen(i + 1) - seen(i)
    /\ pc = "sched_step" =>
          /\ optSteps = N
          /\ losses.count = trainSize /\ top1.count = trainSize

\* a pass over two batches of different sizes has ended
C7_Witness ==
    /\ pc = "sched_step" /\ optSteps = 2 /\ trainSize = 3 /\ batch_size = 2
    /\ epoch = 1

\* number of batch indices below k that are multiples of pf
Printed(k, pf) == (k + pf - 1) \div pf

\* C8: train prints a progress record for batch i exactly when i mod print_freq
\* is 0, after that batch's optimizer step and meter updates; the records carry
\* epoch+1, i and the number of batches, and a pass over N batches prints
\* ceil(N / print_freq) of them.
C8_ProgressRecords ==
    LET N == NumBatches(trainSize, batch_size)
        done == IF pc \in TrainPcs THEN i ELSE N
    IN
    pc \notin {"call", "epoch_head", "train", "done", "raised"} \/ trainPasses > 0 =>
    /\ pc \notin {"epoch_head", "train", "done", "raised", "call"} =>
          Len(records) = Printed(done, print_freq)
    /\ \A r \in 1..Len(records) :
          /\ records[r].batch = (r - 1) * print_freq
          /\ records[r].total = N
    /\ pc \in TrainPcs \cup {"sched_step"} =>
          \A r \in 1..Len(records) : records[r].epoch = epoch + 1
    /\ pc = "t_fetch" /\ i > 0 /\ (i - 1) % print_freq = 0 =>
          /\ records[Len(records)].loss = losses.avg
          /\ records[Len(records)].top1 = top1.avg
          /\ losses.count = ExamplesIn(trainSize, batch_size, i)
          /\ optSteps = i

\* a pass of three batches with print_freq 2 has printed batches 0 and 2 only
C8_Witness ==
    /\ pc = "sched_step" /\ print_freq = 2
    /\ NumBatches(trainSize, batch_size) = 3
    /\ Len(records) = 2 /\ records[2].batch = 2

(***************************************************************************)
(* An AverageMeter driven directly by any sequence of update and reset     *)
(* calls (SpecMeter).                                                      *)
(***************************************************************************)
MeterValues == {Rat(k, 2) : k \in -1..MaxVal}

InitMeter ==
    /\ cuda_available = FALSE
    /\ epochs = 0 /\ print_freq = 1 /\ batch_size = 1 /\ lr = Rat(1, 10)
    /\ trainSize = 0 /\ valSize = 0
    /\ InitLocals
    /\ meter = MeterReset /\ hist = <<>> /\ meter_exc = FALSE
    /\ NoNetwork
    /\ NoCall

\* meter.update(v, n)
MeterUpdate ==
    /\ Len(hist) < MaxUpdates
    /\ \E v \in MeterValues, n \in 0..MaxWeight :
          /\ meter' = Update(meter, v, n)
          /\ meter_exc' = UpdateRaises(meter, v, n)
          /\ hist' = Append(hist, <<v, n>>)
    /\ UNCHANGED <<trainVars, arch, call>>

\* meter.reset()
MeterResetCall ==
    /\ hist # <<>>
    /\ meter' = MeterReset
    /\ meter_exc' = FALSE
    /\ hist' = <<>>
    /\ UNCHANGED <<trainVars, arch, call>>

NextMeter == MeterUpdate \/ MeterResetCall

SpecMeter == InitMeter /\ [][NextMeter]_vars

RECURSIVE SumVN(_)
\* sum of v * n over the calls of h
SumVN(h) ==
    IF h = <<>> THEN Zero
    ELSE RAdd(SumVN(SubSeq(h, 1, Len(h) - 1)),
              RMul(h[Len(h)][1], RInt(h[Len(h)][2])))

RECURSIVE SumN(_)
\* sum of n over the calls of h
SumN(h) == IF h = <<>> THEN 0 ELSE SumN(SubSeq(h, 1, Len(h) - 1)) + h[Len(h)][2]

\* C4: after update calls (v_i, n_i) on a fresh or reset meter with positive
\* total weight, sum is the sum of v_i * n_i, count the sum of n_i, val the last
\* v_i and avg is sum / count; with every n_i = 1 and a constant v, avg is v.
C4_WeightedAverage ==
    hist # <<>> /\ meter.count > 0 =>
        /\ meter.sum = SumVN(hist)
        /\ meter.count = SumN(hist)
        /\ meter.val = hist[Len(hist)][1]
        /\ meter.avg.n * meter.count * meter.sum.d = meter.sum.n * meter.avg.d
        /\ (\A k \in 1..Len(hist) : hist[k] = <<hist[1][1], 1>>) =>
              meter.avg = hist[1][1]

\* three updates with different values and weights, after a reset
C4_Witness ==
    /\ Len(hist) = 3 /\ meter.count = 4
    /\ hist[1][2] = 2 /\ hist[2][2] = 1 /\ hist[1][1] # hist[3][1]
    /\ meter.avg # meter.val /\ meter.avg.d = 4

(***************************************************************************)
(* A long run of setup_and_train, past both milestones (SpecLR).           *)
(***************************************************************************)
InitLR ==
    /\ cuda_available = TRUE
    /\ epochs = MaxEpochsLR
    /\ print_freq = 1 /\ batch_size = 1
    /\ lr \in {Rat(1, 10), Rat(1, 5)}
    /\ trainSize = 1 /\ valSize = 1
    /\ InitLocals
    /\ meter = MeterReset /\ hist = <<>> /\ meter_exc = FALSE
    /\ NoNetwork
    /\ NoCall

SpecLR == InitLR /\ [][Next]_vars

\* lr multiplied by the decay factor once for each milestone m <= e
DecayedLr(e) ==
    LET once == IF Milestone1 <= e THEN RMul(lr, Gamma) ELSE lr
    IN  IF Milestone2 <= e THEN RMul(once, Gamma) ELSE once

\* the rate the optimizer holds during the training pass of epoch e, and the
\* rate its latest step of that pass used, is the decayed rate
AppliedRateDecays ==
    /\ pc \in TrainPcs => group_lr = DecayedLr(epoch)
    /\ pc \in {"t_acc", "t_losses", "t_top1", "t_time", "t_print"} =>
          appliedLr = DecayedLr(epoch)

\* C9: during the training pass of epoch e the optimizer applies lr decayed once
\* per milestone m <= e, and the learning-rate field of every progress record of
\* that pass is that applied rate.
C9_RecordShowsAppliedRate ==
    /\ AppliedRateDecays
    /\ pc \in TrainPcs =>
          \A r \in 1..Len(records) : records[r].lr = DecayedLr(epoch)

(***************************************************************************)
(* The network: ResNet.__init__ and BasicBlock (SpecNet).                  *)
(*                                                                         *)
(* A tensor is one example of a batch: a sequence of channels, each a      *)
(* sequence of rows, each a sequence of integers.  A convolution weight is *)
(* taken from the kernels whose only non-zero tap is the centre one, with  *)
(* the same value for every input channel; a BatchNorm2d layer is the      *)
(* per-channel affine map it applies once its statistics are fixed.        *)
(***************************************************************************)
InitialInPlanes == 16
Stages == <<[planes |-> 16, stride |-> 1],
            [planes |-> 32, stride |-> 2],
            [planes |-> 64, stride |-> 2]>>
\* states of the random generator, and patterns of an input tensor
Seeds == {1, 2}
Sides == 1..MaxSide

\* init.kaiming_normal_ and the default initialisers: a value fixed by the
\* generator's state s and the position id of the weight
Drawn(s, id) == ((3 * s + id) % 5) - 2

Channels(t) == Len(t)
Rows(t) == IF t = <<>> THEN 0 ELSE Len(t[1])
Cols(t) == IF Rows(t) = 0 THEN 0 ELSE Len(t[1][1])
ShapeOf(t) == <<Channels(t), Rows(t), Cols(t)>>

\* F.relu
Relu(t) ==
    [c \in 1..Channels(t) |-> [h \in 1..Rows(t) |-> [w \in 1..Cols(t) |->
        IF t[c][h][w] < 0 THEN 0 ELSE t[c][h][w]]]]
\* scalar * tensor
TScale(g, t) ==
    [c \in 1..Channels(t) |-> [h \in 1..Rows(t) |-> [w \in 1..Cols(t) |->
        g * t[c][h][w]]]]
\* tensor + tensor of the same shape
TAdd(a, b) ==
    [c \in 1..Channels(a) |-> [h \in 1..Rows(a) |-> [w \in 1..Cols(a) |->
        a[c][h][w] + b[c][h][w]]]]

RECURSIVE ChannelSum(_, _, _, _)
\* sum over the first c channels of t at row h, column w
ChannelSum(t, c, h, w) ==
    IF c = 0 THEN 0 ELSE ChannelSum(t, c - 1, h, w) + t[c][h][w]

\* size of a 3x3, padding 1 convolution's output along a side of length n
ConvSide(n, stride) == ((n + 2 - 3) \div stride) + 1

\* nn.Conv2d(., planes, kernel_size=3, stride, padding=1, bias=False)
Conv2d(m, t) ==
    LET plane == [h \in 1..ConvSide(Rows(t), m.stride) |->
                    [w \in 1..ConvSide(Cols(t), m.stride) |->
                        ChannelSum(t, Channels(t),
                                   (h - 1) * m.stride + 1, (w - 1) * m.stride + 1)]]
    IN  [co \in 1..m.out |-> [h \in 1..Len(plane) |-> [w \in 1..Len(plane[1]) |->
            (m.weight + (co % 2)) * plane[h][w]]]]

\* nn.BatchNorm2d
BatchNorm2d(m, t) ==
    [c \in 1..Channels(t) |-> [h \in 1..Rows(t) |-> [w \in 1..Cols(t) |->
        m.weight * t[c][h][w] + m.bias]]]

\* x[:, :, ::2, ::2]
Subsample(t) ==
    [c \in 1..Channels(t) |-> [h \in 1..((Rows(t) + 1) \div 2) |->
        [w \in 1..((Cols(t) + 1) \div 2) |-> t[c][2 * h - 1][2 * w - 1]]]]

\* F.pad(t, (0, 0, 0, 0, k, k), "constant", 0)
PadChannels(t, k) ==
    [c \in 1..(Channels(t) + 2 * k) |->
        IF c <= k \/ c > k + Channels(t)
        THEN [h \in 1..Rows(t) |-> [w \in 1..Cols(t) |-> 0]]
        ELSE t[c - k]]

\* self.shortcut(x)
Shortcut(self, x) ==
    IF self.shortcut.kind = "LambdaLayer"
    THEN PadChannels(Subsample(x), self.shortcut.pad)
    ELSE x

\* bn2(conv2(relu(bn1(conv1(x)))))
Branch(self, x) ==
    LET out == Relu(BatchNorm2d(self.bn1, Conv2d(self.conv1, x)))
    IN  BatchNorm2d(self.bn2, Conv2d(self.conv2, out))

\* the skip connection after the nonlinearity
GatedMergeBeforeRelu(g, out, sc) == Relu(TAdd(TScale(g, out), sc))
GatedMerge(g, out, sc) == TAdd(TScale(g, Relu(out)), sc)

\* the skip connection before the nonlinearity
PlainMergeNoRelu(out, sc) == TAdd(out, sc)
PlainMerge(out, sc) == Relu(TAdd(out, sc))

\* BasicBlock.forward; raised when the two branches differ in shape; branch
\* is the local out before the merge
Forward(self, x) ==
    LET out == Branch(self, x)
        sc == Shortcut(self, x)
    IN  IF ShapeOf(out) # ShapeOf(sc)
        THEN [raised |-> TRUE, branch |-> out, out |-> <<>>]
        ELSE IF self.rezero
        THEN [raised |-> FALSE, branch |-> out,
              out |-> GatedMerge(self.resweight[1], out, sc)]
        ELSE [raised |-> FALSE, branch |-> out, out |-> PlainMerge(out, sc)]

\* planes//4, the zero channels the shortcut adds on each side
PadWidthHalf(planes) == planes \div 2
PadWidth(planes) == planes \div 4

\* BasicBlock.__init__(in_planes, planes, stride, rezero=rz), the j-th block
\* built while the generator is in state s
BasicBlock(in_planes, planes, stride, rz, s, j) ==
    [kind |-> "BasicBlock", in_planes |-> in_planes, planes |-> planes,
     stride |-> stride,
     conv1 |-> [kind |-> "Conv2d", out |-> planes, stride |-> stride,
                weight |-> Drawn(s, 2 * j)],
     bn1 |-> [kind |-> "BatchNorm2d", weight |-> 1, bias |-> 0],
     conv2 |-> [kind |-> "Conv2d", out |-> planes, stride |-> 1,
                weight |-> Drawn(s, 2 * j + 1)],
     bn2 |-> [kind |-> "BatchNorm2d", weight |-> 1, bias |-> 0],
     rezero |-> rz,
     resweight |-> IF rz THEN <<0>> ELSE None,
     shortcut |-> IF stride # 1 \/ in_planes # planes
                  THEN [kind |-> "LambdaLayer", pad |-> PadWidth(planes)]
                  ELSE [kind |-> "Sequential"]]

\* list * k: k copies of the list's element, none when k is negative
Repeat(v, k) == [q \in 1..(IF k < 0 THEN 0 ELSE k) |-> v]

\* strides = [stride] + [1]*(num_blocks-1)
StridesOf(stride, n) == <<stride>> \o Repeat(1, n - 1)

\* ResNet._make_layer: the blocks appended to layers, the first reading
\* self.in_planes = in_planes and the rest planes * expansion
MakeLayer(in_planes, planes, n, stride, rz, s, before) ==
    LET strides == StridesOf(stride, n)
    IN  [k \in 1..Len(strides) |->
            BasicBlock(IF k = 1 THEN in_planes ELSE planes, planes,
                       strides[k], rz, s, before + k)]

\* self.layerq = nn.Sequential(*layers): each block knows its stage
InLayer(layers, q) == [k \in 1..Len(layers) |-> [layer |-> q] @@ layers[k]]

\* layer1, layer2, layer3 of ResNet.__init__, in order
Layers(nb, rz, s) ==
    LET l1 == MakeLayer(InitialInPlanes, Stages[1].planes, nb[1],
                        Stages[1].stride, rz, s, 0)
        l2 == MakeLayer(Stages[1].planes, Stages[2].planes, nb[2],
                        Stages[2].stride, rz, s, Len(l1))
        l3 == MakeLayer(Stages[2].planes, Stages[3].planes, nb[3],
                        Stages[3].stride, rz, s, Len(l1) + Len(l2))
    IN  InLayer(l1, 1) \o InLayer(l2, 2) \o InLayer(l3, 3)

\* _weights_init(m), the generator in state s, m the id-th module visited
WeightsInit(m, s, id) ==
    IF m.kind = "Linear" \/ m.kind = "Conv2d"
    THEN [m EXCEPT !.weight = Drawn(s + 1, id)]
    ELSE m

\* self.apply(_weights_init) on the j-th block: its children, then the block
ApplyToBlock(b, s, j) ==
    WeightsInit([b EXCEPT !.conv1 = WeightsInit(@, s, 2 * j),
                          !.bn1 = WeightsInit(@, s, 2 * j),
                          !.conv2 = WeightsInit(@, s, 2 * j + 1),
                          !.bn2 = WeightsInit(@, s, 2 * j + 1),
                          !.shortcut = WeightsInit(@, s, 2 * j)],
                s, 2 * j)

\* optimizer.step() on the j-th block: every parameter moves, the gate too
StepBlock(b, t, j) ==
    [b EXCEPT !.conv1.weight = Drawn(t, 2 * j + 1),
              !.conv2.weight = Drawn(t, 2 * j),
              !.bn1.weight = 1 + ((t + j) % 2),
              !.bn1.bias = Drawn(t, j),
              !.bn2.weight = 1 + (t % 2),
              !.bn2.bias = Drawn(t + 1, j),
              !.resweight = IF b.rezero THEN <<((t + j) % 3) - 1>> ELSE None]

\* an input of the block: in_planes channels of side n, entries in -2..2
InputOf(s, in_planes, n) ==
    [c \in 1..in_planes |-> [h \in 1..n |-> [w \in 1..n |->
        ((s + c + 2 * h + 3 * w) % 5) - 2]]]

InitNet ==
    /\ cuda_available = TRUE /\ epochs = 0 /\ print_freq = 1 /\ batch_size = 1
    /\ lr = Rat(1, 10) /\ trainSize = 0 /\ valSize = 0
    /\ InitLocals
    /\ meter = MeterReset /\ hist = <<>> /\ meter_exc = FALSE
    /\ rezero \in BOOLEAN
    /\ num_blocks \in [1..3 -> 0..MaxBlocks]
    /\ npc = "none" /\ blocks = <<>> /\ fwd = <<>> /\ shown = <<>>
    /\ NoCall

\* ResNet(BasicBlock, num_blocks, rezero=rezero)
ResNetInit ==
    /\ npc = "none"
    /\ \E s \in Seeds :
          LET built == Layers(num_blocks, rezero, s)
          IN  blocks' = [j \in 1..Len(built) |-> ApplyToBlock(built[j], s, j)]
    /\ npc' = "fresh"
    /\ UNCHANGED <<trainVars, meterVars, call, rezero, num_blocks, fwd, shown>>

\* optimizer.step() on the network's parameters
NetOptimizerStep ==
    /\ npc \in {"fresh", "trained"}
    /\ \E t \in Seeds :
          blocks' = [j \in 1..Len(blocks) |-> StepBlock(blocks[j], t, j)]
    /\ npc' = "trained"
    /\ UNCHANGED <<trainVars, meterVars, call, rezero, num_blocks, fwd, shown>>

\* blocks[j].forward(x); fwd keeps the first call of a behaviour, a call
\* reading nothing but the block and its input
BlockForward ==
    /\ npc \in {"fresh", "trained"}
    /\ fwd = <<>>
    /\ \E j \in 1..Len(blocks), s \in Seeds, n \in Sides :
          LET x == InputOf(s, blocks[j].in_planes, n)
              r == Forward(blocks[j], x)
          IN  fwd' = <<[self |-> blocks[j], x |-> x, raised |-> r.raised,
                        branch |-> r.branch, out |-> r.out]>>
    /\ UNCHANGED <<trainVars, meterVars, call, rezero, num_blocks, npc, blocks, shown>>

NextNet == ResNetInit \/ NetOptimizerStep \/ BlockForward

SpecNet == InitNet /\ [][NextNet]_vars

IsZero(t) == \A c \in 1..Channels(t), h \in 1..Rows(t), w \in 1..Cols(t) :
                t[c][h][w] = 0

\* C10: a gated block whose gate is exactly zero returns exactly shortcut(x),
\* whatever the input and the convolution and normalization parameters; and
\* every block of a freshly constructed gated network has its gate at zero,
\* _weights_init having left it alone.
C10_ZeroGateIsShortcut ==
    /\ fwd # <<>> /\ fwd[1].self.rezero /\ fwd[1].self.resweight = <<0>> =>
          /\ ~fwd[1].raised
          /\ fwd[1].out = Shortcut(fwd[1].self, fwd[1].x)
    /\ npc = "fresh" /\ rezero =>
          \A j \in 1..Len(blocks) :
              blocks[j].rezero /\ blocks[j].resweight = <<0>>

\* a fresh gated network's down-sampling block, called on an input with
\* negative entries, whose transformed branch is not zero
C10_Witness ==
    /\ npc = "fresh" /\ fwd # <<>>
    /\ fwd[1].self.rezero /\ fwd[1].self.resweight = <<0>>
    /\ fwd[1].self.shortcut.kind = "LambdaLayer"
    /\ ~IsZero(Relu(fwd[1].branch))
    /\ \E c \in 1..Channels(fwd[1].x) : fwd[1].x[c][1][1] < 0
    /\ fwd[1].out = Shortcut(fwd[1].self, fwd[1].x)

\* some entry of t is negative
HasNegative(t) == \E c \in 1..Channels(t), h \in 1..Rows(t), w \in 1..Cols(t) :
                     t[c][h][w] < 0

\* C11: with the flag true the block returns gate * relu(out) + shortcut(x),
\* entry by entry; with the flag false it returns relu(out + shortcut(x)),
\* which has no negative entry, and the block has no gate; every block of a
\* network carries the network's flag.
C11_MergeOrder ==
    /\ fwd # <<>> =>
          LET self == fwd[1].self
              out == fwd[1].branch
              sc == Shortcut(self, fwd[1].x)
              shape == ShapeOf(out)
          IN  /\ ~fwd[1].raised
              /\ ShapeOf(sc) = shape
              /\ fwd[1].out =
                    [c \in 1..shape[1] |-> [h \in 1..shape[2] |->
                        [w \in 1..shape[3] |->
                            IF self.rezero
                            THEN self.resweight[1]
                                   * (IF out[c][h][w] < 0 THEN 0 ELSE out[c][h][w])
                                 + sc[c][h][w]
                            ELSE IF out[c][h][w] + sc[c][h][w] < 0 THEN 0
                                 ELSE out[c][h][w] + sc[c][h][w]]]]
              /\ ~self.rezero =>
                    self.resweight = None /\ ~HasNegative(fwd[1].out)
    /\ \A j \in 1..Len(blocks) :
          /\ blocks[j].rezero = rezero
          /\ (blocks[j].resweight = None) = ~rezero

\* a gated block with a non-zero gate and a non-zero transformed branch whose
\* output has a negative entry
C11_Witness ==
    /\ fwd # <<>> /\ fwd[1].self.rezero /\ fwd[1].self.resweight # <<0>>
    /\ ~IsZero(Relu(fwd[1].branch))
    /\ HasNegative(fwd[1].out)

\* an ungated block whose pre-activation sum has a negative entry
C11_WitnessPlain ==
    /\ fwd # <<>> /\ ~fwd[1].self.rezero
    /\ HasNegative(TAdd(fwd[1].branch, Shortcut(fwd[1].self, fwd[1].x)))

\* C12: every block ResNet constructs has the identity as shortcut when its
\* input and output channel counts are equal and its stride is 1, and otherwise
\* a shortcut that keeps every second row and column of the input and adds
\* planes//4 zero channels on each side, reaching planes channels; the
\* shortcut's output has the shape of the transformed branch.
C12_ShortcutMatchesBranch ==
    /\ \A j \in 1..Len(blocks) :
          LET b == blocks[j]
          IN  IF b.in_planes = b.planes /\ b.stride = 1
              THEN b.shortcut.kind = "Sequential"
              ELSE /\ b.shortcut.kind = "LambdaLayer"
                   /\ b.shortcut.pad = b.planes \div 4
                   /\ b.in_planes + 2 * b.shortcut.pad = b.planes
    /\ fwd # <<>> =>
          LET self == fwd[1].self
              x == fwd[1].x
              sc == Shortcut(self, x)
              k == self.planes \div 4
          IN  /\ ShapeOf(sc) = ShapeOf(fwd[1].branch)
              /\ Channels(sc) = self.planes
              /\ ~fwd[1].raised
              /\ IF self.in_planes = self.planes /\ self.stride = 1
                 THEN sc = x
                 ELSE /\ Rows(sc) = (Rows(x) + 1) \div 2
                      /\ Cols(sc) = (Cols(x) + 1) \div 2
                      /\ \A c \in 1..Channels(sc), h \in 1..Rows(sc),
                            w \in 1..Cols(sc) :
                            sc[c][h][w] =
                               IF c <= k \/ c > k + Channels(x) THEN 0
                               ELSE x[c - k][2 * h - 1][2 * w - 1]

\* the first block of stage 3 of a network with at least one block per stage,
\* called on an input with more than one row
C12_Witness ==
    /\ \A q \in 1..3 : num_blocks[q] >= 1
    /\ fwd # <<>> /\ ~fwd[1].raised
    /\ fwd[1].self.in_planes = Stages[2].planes
    /\ fwd[1].self.planes = Stages[3].planes
    /\ Rows(fwd[1].x) > 1
    /\ Channels(fwd[1].branch) = 2 * Channels(fwd[1].x)
    /\ ~IsZero(Shortcut(fwd[1].self, fwd[1].x))

\* the blocks of stage q
StageBlocks(q) == {j \in 1..Len(blocks) : blocks[j].layer = q}

\* three stages of the configured sizes, widths 16, 32, 64, stride 2 only at
\* the first block of stages 2 and 3, input widths chained from 16
StageStructure ==
    /\ \A q \in 1..3 : Cardinality(StageBlocks(q)) = num_blocks[q]
    /\ \A j \in 1..Len(blocks) :
          LET b == blocks[j]
              first == j = 1 \/ blocks[j - 1].layer # b.layer
          IN  /\ b.planes = <<16, 32, 64>>[b.layer]
              /\ j > 1 => blocks[j - 1].layer <= b.layer
              /\ b.stride = IF first /\ b.layer \in {2, 3} THEN 2 ELSE 1
              /\ b.in_planes = IF j = 1 THEN 16 ELSE blocks[j - 1].planes

\* the structure holds whenever every configured count is at least 1
StructureForPositiveCounts ==
    npc # "none" /\ (\A q \in 1..3 : num_blocks[q] >= 1) => StageStructure

\* C13: for every three non-negative per-stage counts the constructed network
\* has exactly the configured number of blocks in each stage, stage widths 16,
\* 32, 64, stride 2 only at the first block of stages 2 and 3, and every
\* block's input width equal to the output width of the block before it.
C13_StageStructure == npc # "none" => StageStructure

(***************************************************************************)
(* test(net) on networks with the same number of blocks in every stage     *)
(* (SpecDepth).                                                            *)
(***************************************************************************)
\* the parameters a module registers itself: the number of dimensions of each
\* (Conv2d has bias=False; a gate is torch.Tensor([0]))
OwnParameters(m) ==
    IF m.kind = "Conv2d" THEN <<[dims |-> 4, requires_grad |-> TRUE]>>
    ELSE IF m.kind = "BatchNorm2d"
    THEN <<[dims |-> 1, requires_grad |-> TRUE],
           [dims |-> 1, requires_grad |-> TRUE]>>
    ELSE IF m.kind = "Linear"
    THEN <<[dims |-> 2, requires_grad |-> TRUE],
           [dims |-> 1, requires_grad |-> TRUE]>>
    ELSE IF m.kind = "BasicBlock" /\ m.resweight # None
    THEN <<[dims |-> 1, requires_grad |-> TRUE]>>
    ELSE <<>>

\* block.parameters(): its own, then its children's
BlockParameters(b) ==
    OwnParameters(b) \o OwnParameters(b.conv1) \o OwnParameters(b.bn1)
        \o OwnParameters(b.conv2) \o OwnParameters(b.bn2)
        \o OwnParameters(b.shortcut)

RECURSIVE LayerParameters(_, _)
\* the parameters of the first n blocks
LayerParameters(bs, n) ==
    IF n = 0 THEN <<>>
    ELSE LayerParameters(bs, n - 1) \o BlockParameters(bs[n])

\* net.parameters(): conv1, bn1, layer1..layer3, linear
NetParameters ==
    OwnParameters([kind |-> "Conv2d"]) \o OwnParameters([kind |-> "BatchNorm2d"])
        \o LayerParameters(blocks, Len(blocks))
        \o OwnParameters([kind |-> "Linear"])

\* the filter of test's "Total layers" line
CountedAnyTrainable(p) == p.requires_grad
Counted(p) == p.requires_grad /\ p.dims > 1

InitDepth ==
    /\ cuda_available = TRUE /\ epochs = 0 /\ print_freq = 1 /\ batch_size = 1
    /\ lr = Rat(1, 10) /\ trainSize = 0 /\ valSize = 0
    /\ InitLocals
    /\ meter = MeterReset /\ hist = <<>> /\ meter_exc = FALSE
    /\ rezero \in BOOLEAN
    /\ num_blocks \in {<<k, k, k>> : k \in 1..MaxDepth}
    /\ npc = "none" /\ blocks = <<>> /\ fwd = <<>> /\ shown = <<>>
    /\ NoCall

\* test(net)
TestNet ==
    /\ npc \in {"fresh", "trained"}
    /\ shown = <<>>
    /\ LET ps == NetParameters
       IN  shown' = <<[layers |->
                          Cardinality({q \in 1..Len(ps) : Counted(ps[q])})]>>
    /\ UNCHANGED <<trainVars, meterVars, call, rezero, num_blocks, npc, blocks, fwd>>

NextDepth == ResNetInit \/ NetOptimizerStep \/ TestNet

SpecDepth == InitDepth /\ [][NextDepth]_vars

\* C14: test reports 6k + 2 layers for a network with k >= 1 blocks in every
\* stage, gated or not: 20 for k = 3, 56 for k = 9, 110 for k = 18.
C14_LayerCount ==
    shown # <<>> =>
        LET k == num_blocks[1]
        IN  /\ shown[1].layers = 6 * k + 2
            /\ k = 3 => shown[1].layers = 20
            /\ k = 9 => shown[1].layers = 56
            /\ k = 18 => shown[1].layers = 110

\* test on a gated network of 18 blocks per stage, after training
C14_Witness ==
    /\ shown # <<>> /\ rezero /\ npc = "trained"
    /\ num_blocks = <<18, 18, 18>> /\ Len(blocks) = 54
    /\ shown[1].layers = 110

(***************************************************************************)
(* accuracy(output, target) with the default topk = (1,) (SpecAcc).        *)
(***************************************************************************)
Classes == {1, 2, 3}
ScoreValues == {0, 1}

\* the classes of row whose score is the largest
ArgMax(row) == {k \in DOMAIN row : \A q \in DOMAIN row : row[q] <= row[k]}

\* output.topk(1, 1, True, True): for each example one class of largest score;
\* which one among equal scores is left to the library
TopK1(scores) ==
    {pred \in [DOMAIN scores -> Classes] :
        \A e \in DOMAIN scores : pred[e] \in ArgMax(scores[e])}

\* correct[:1].view(-1).float().sum(0)
CorrectK(pred, target) == Cardinality({e \in DOMAIN pred : pred[e] = target[e]})

InitAcc ==
    /\ cuda_available = TRUE /\ epochs = 0 /\ print_freq = 1 /\ batch_size = 1
    /\ lr = Rat(1, 10) /\ trainSize = 0 /\ valSize = 0
    /\ InitLocals
    /\ meter = MeterReset /\ hist = <<>> /\ meter_exc = FALSE
    /\ NoNetwork
    /\ \E n \in 1..MaxAccBatch :
          \E scores \in [1..n -> [Classes -> ScoreValues]],
             target \in [1..n -> Classes] :
              acc_args = <<[output |-> scores, target |-> target]>>
    /\ acc_res = <<>>

\* accuracy(output, target)[0]
AccuracyCall ==
    /\ acc_args # <<>> /\ acc_res = <<>>
    /\ LET scores == acc_args[1].output
           target == acc_args[1].target
       IN  \E pred \in TopK1(scores) :
              acc_res' = <<Accuracy(CorrectK(pred, target), Len(target))>>
    /\ UNCHANGED <<trainVars, meterVars, arch, acc_args>>

NextAcc == AccuracyCall

SpecAcc == InitAcc /\ [][NextAcc]_vars

\* examples whose only highest-scoring class is the label
SurelyRight ==
    {e \in DOMAIN acc_args[1].output :
        ArgMax(acc_args[1].output[e]) = {acc_args[1].target[e]}}

\* examples one of whose highest-scoring classes is the label
PossiblyRight ==
    {e \in DOMAIN acc_args[1].output :
        acc_args[1].target[e] \in ArgMax(acc_args[1].output[e])}

\* C15: for a batch of B >= 1 examples accuracy returns 100 * c / B, c the
\* number of examples whose highest-scoring class is the label (where scores
\* tie, the class the library picked); the value lies in [0, 100], is 100 when
\* every prediction matches and 0 when none does.
C15_TopOneAccuracy ==
    acc_res # <<>> =>
        LET B == Len(acc_args[1].target)
            r == acc_res[1]
        IN  /\ RGe(r, Rat(100 * Cardinality(SurelyRight), B))
            /\ RGe(Rat(100 * Cardinality(PossiblyRight), B), r)
            /\ SurelyRight = PossiblyRight =>
                  r = Rat(100 * Cardinality(SurelyRight), B)
            /\ RGe(r, RInt(0)) /\ RGe(RInt(100), r)
            /\ Cardinality(SurelyRight) = B => r = RInt(100)
            /\ PossiblyRight = {} => r = RInt(0)

\* two examples without ties, one of them right
C15_Witness ==
    /\ acc_res # <<>> /\ Len(acc_args[1].target) = 2
    /\ SurelyRight = PossiblyRight /\ Cardinality(SurelyRight) = 1
    /\ acc_res[1] = RInt(50)

(***************************************************************************)
(* Device placement in setup_and_train, train and validate (Spec).         *)
(***************************************************************************)
\* device = torch.device("cuda" if torch.cuda.is_available() else "cpu")
Device == IF cuda_available THEN "cuda" ELSE "cpu"

\* model = model.to(device)
ModelDevice == Device

\* target.cuda(), input.cuda(): where the batch is once the call has returned
BatchDevice == "cuda"

\* C16: on a machine with or without an accelerator the run proceeds (no step
\* raises), and every forward pass and loss computation of train and validate
\* has the model and the batch on one device.
C16_OneDeviceEitherMachine ==
    /\ pc # "raised"
    /\ pc \in {"t_forward", "t_loss", "v_forward", "v_loss"} =>
          ModelDevice = BatchDevice

(***************************************************************************)
(* update(val, n) with n = 0 (SpecMeter).                                  *)
(***************************************************************************)
\* C17: after every sequence of reset() and update(val, n) calls with n >= 0,
\* an update with n = 0 on a count of 0 included, the last update completed
\* without error and avg * count = sum.
C17_UpdateAlwaysCompletes ==
    /\ ~meter_exc
    /\ RMul(meter.avg, RInt(meter.count)) = meter.sum

====
